---------------------------- MODULE Spec2Model ----------------------------
(***************************************************************************)
(* RapidExtractor: the run orchestrator (main.py), the collection          *)
(* functions of the extractor modules and the archiver (zip_directory).    *)
(*                                                                         *)
(* One run of main(selected_modules, ...) is modelled.  The tasks run in   *)
(* main's fixed textual order; each task is the body of one try block: a   *)
(* collection call (two for installed_programs) followed by zip_directory  *)
(* (shutil.make_archive, then shutil.rmtree), and the except clause that   *)
(* logs the failure.  The source filesystem a collector reads and the      *)
(* faults the operating system raises are inputs, drawn when the           *)
(* collection function is called.                                          *)
(*                                                                         *)
(* Four specifications:                                                    *)
(*   Spec       one run of main, one action per call of a try block;       *)
(*   SpecFiles  one call of copy_prefetch_files, call by call, with the    *)
(*              chunked read of calculate_md5 and the writes of other      *)
(*              processes to the source;                                   *)
(*   SpecTree   one call of generate_dir_tree on a directory structure     *)
(*              with listing faults and links (SpecTreeFair: the call,     *)
(*              once made, runs to its return);                            *)
(*   SpecGui    one session of the module selector (gui.py), one action    *)
(*              per dialog answer and per callback.                        *)
(***************************************************************************)
EXTENDS Integers, Sequences, FiniteSets, TLC

VARIABLES
    selected,   \* main's selected_modules argument (a set: main only tests membership)
    pc,         \* index in ModOrder of the task whose if-block main is in; Len(ModOrder)+1 after the last
    step,       \* index in TaskOps of the next call inside the current try block
    taskLog,    \* per module, what main logged for it: "none", "completed" or "failed"
    calls,      \* per module, how often main has invoked its collection function
    dirs,       \* working directories that exist under target_dir_base
    zips,       \* archives (<dir>.zip) completely written under target_dir_base
    work,       \* per working directory of the running task, the entries it holds
    zipped,     \* per working directory of the running task, the entries of its archive
    cur,        \* the running task: inputs drawn, result of the last collection call, exception raised
    done,       \* main has reached its final log statement
    \* One call of copy_prefetch_files, call by call (prefetch_extractor.py):
    target_exists,    \* target_dir exists
    csv_file,         \* the manifest handle: "unopened", "open" or "closed"
    srcData,          \* per source file, its content (a sequence of bytes)
    dstData,          \* per source file, the content of its copy under target_dir
    copied,           \* the source files whose copy exists under target_dir
    modified,         \* the source files another process has written to since the loop began
    fileIdx,          \* index in LoopFiles of the file the loop is at
    fpc,              \* the call of the loop body that comes next
    hash_md5,         \* calculate_md5: the bytes fed to the hash object by update()
    offset,           \* calculate_md5: the read position of the open file f
    creation_date,    \* local of the loop body
    last_access_date, \* local of the loop body
    md5_checksum,     \* local of the loop body
    csv_rows,         \* the rows csv_writer has written, in order
    trace,            \* the calls of the loop body made so far, in order
    \* One call of generate_dir_tree (dir_tree_extractor.py):
    tree_in,          \* the directory structure under start_path and its faults
    tree_out,         \* the lines written to the output file and the directories listed
    tpc,              \* "ready" before the call, "done" after it
    \* One session of the module selector (gui.py):
    gpc,              \* where create_gui is: a dialog, the main loop, or ended
    case_name,        \* local of create_gui: the last answer of the case name dialog
    device_name,      \* local of create_gui: the last answer of the device name dialog
    checked,          \* per module, the value of its BooleanVar
    select_all_state, \* the BooleanVar select_all_state
    toggle_text,      \* the text of toggle_button
    selected_modules, \* the list selected_modules of create_gui
    batch_calls,      \* the invocations of generate_batch_file, in order
    batch_file,       \* the batch file on disk (None: not written)
    shown             \* the title of the message box shown last

mainVars == <<selected, pc, step, taskLog, calls, dirs, zips, work, zipped, cur, done>>

setupVars == <<target_exists, csv_file>>

fileVars ==
    <<setupVars, srcData, dstData, copied, modified, fileIdx, fpc, hash_md5, offset,
      creation_date, last_access_date, md5_checksum, csv_rows, trace>>

treeVars == <<tree_in, tree_out, tpc>>

guiVars == <<gpc, case_name, device_name, checked, select_all_state, toggle_text,
             selected_modules, batch_calls, batch_file, shown>>

vars == <<mainVars, fileVars, treeVars, guiVars>>

-----------------------------------------------------------------------------
(* Bounds *)

\* Largest number of modules passed to main in one run.
MaxSelected == 2

-----------------------------------------------------------------------------
(* main.py: the tasks, in the order of main's if-blocks *)

ModOrder ==
    <<"prefetch", "dir_tree", "processes", "installed_programs",
      "teamviewer", "bet", "browser_history">>

Modules == {ModOrder[i] : i \in 1..Len(ModOrder)}

\* The directory a module collects into (os.path.join(target_dir_base, ...)).
ExportDir(m) ==
    CASE m = "prefetch" -> "Prefetch_export"
      [] m = "dir_tree" -> "DirTree_export"
      [] m = "processes" -> "Processes_export"
      [] m = "teamviewer" -> "TeamViewer_export"
      [] m = "bet" -> "BET_export"
      [] m = "browser_history" -> "BrowserHistory_export"
      [] OTHER -> "ProgramFiles"

WorkDirs ==
    {ExportDir(m) : m \in Modules} \cup {"ProgramFiles", "ProgramFiles_X86"}

Op(k, d) == [kind |-> k, dir |-> d]

\* Mutant: the working directory is removed before it is archived.
zip_directory_RmtreeFirst(d) == <<Op("rmtree", d), Op("make_archive", d)>>

\* zip_directory(directory_path, zip_name): make_archive, then rmtree.
zip_directory(d) == <<Op("make_archive", d), Op("rmtree", d)>>

\* The calls inside a module's try block, in order.
TaskOps(m) ==
    IF m = "installed_programs"
    THEN <<Op("collect", "ProgramFiles"), Op("collect", "ProgramFiles_X86")>>
         \o zip_directory("ProgramFiles") \o zip_directory("ProgramFiles_X86")
    ELSE <<Op("collect", ExportDir(m))>> \o zip_directory(ExportDir(m))

-----------------------------------------------------------------------------
(* The source filesystem a collector reads.                                *)
(* A source root with one file and two subdirectories of one file each;    *)
(* Children gives each directory's entries in the order os.listdir and     *)
(* os.walk return them.                                                    *)

FilePath == << <<"a.log">>, <<"s1", "b.txt">>, <<"s2", "c.dat">> >>
FileExt == <<"log", "txt", "dat">>
FileIds == 1..Len(FilePath)

SubDir == << <<"s1">>, <<"s2">> >>
DirIds == 1..Len(SubDir)
SrcRoot == <<>>

Children(d) ==
    CASE d = SrcRoot -> << <<"a.log">>, <<"s1">>, <<"s2">> >>
      [] d = <<"s1">> -> << <<"s1", "b.txt">> >>
      [] d = <<"s2">> -> << <<"s2", "c.dat">> >>
      [] OTHER -> <<>>

FileId(p) == CHOOSE i \in FileIds : FilePath[i] = p
DirId(p) == CHOOSE i \in DirIds : SubDir[i] = p
isdir(p) == p = SrcRoot \/ \E i \in DirIds : SubDir[i] = p
basename(p) == p[Len(p)]

(* The inputs of one collection call.                                      *)
(*   setup     "srcMissing": the source root does not exist;              *)
(*             "mkdirFault": os.makedirs(target_dir) raises;              *)
(*             "openFault":  open(csv_file_path, 'w') raises;             *)
(*   listFault the subdirectories whose listing raises;                    *)
(*   fault     per file, the first step that faults on it: "absent" (the   *)
(*             file is not there), "copy" (shutil.copy2 raises), "stat"    *)
(*             (os.path.getctime/getatime raises), "md5" (the open or a    *)
(*             read inside calculate_md5 raises), or "none".               *)
FaultKinds == {"none", "absent", "copy", "stat", "md5"}
NoFault == [i \in FileIds |-> "none"]
NoEnv == [setup |-> "none", listFault |-> {}, fault |-> NoFault]

FileEnvs == [setup : {"ok"}, listFault : SUBSET DirIds, fault : [FileIds -> FaultKinds]]
SetupEnvs(S) == [setup : S, listFault : {{}}, fault : {NoFault}]

\* os.listdir(d): the entries of d that exist; raises (Unlistable) on a fault.
Unlistable(d, env) ==
    \/ env.setup = "srcMissing"
    \/ d # SrcRoot /\ DirId(d) \in env.listFault
listdir(d, env) ==
    SelectSeq(Children(d), LAMBDA p : isdir(p) \/ env.fault[FileId(p)] # "absent")

-----------------------------------------------------------------------------
(* The manifest and the per-file step shared by the collectors *)

None == <<>>

\* calculate_md5(file_path): the hex digest, or None on any exception.
calculate_md5(f, env) ==
    IF env.fault[f] = "md5" THEN None ELSE <<"md5", f>>

\* The row csv_writer.writerow appends for file f read from source path s.
Row(f, s, env) ==
    [name |-> basename(s), path |-> s, digest |-> calculate_md5(f, env)]

\* The state a traversal threads through its loop: the manifest's data rows,
\* the destination files written, the files shutil.copy2 was called on, and
\* whether an exception is propagating.
St0 == [rows |-> <<>>, dest |-> {}, attempted |-> {}, exc |-> FALSE]

\* shutil.copy2(s, d); getctime(s); getatime(s); calculate_md5(s); writerow(...)
CopyAndLog(st, f, s, d, env) ==
    LET k == env.fault[f]
        tried == [st EXCEPT !.attempted = @ \cup {f}]
    IN  IF k = "copy" THEN [tried EXCEPT !.exc = TRUE]
        ELSE IF k = "stat" THEN [tried EXCEPT !.dest = @ \cup {d}, !.exc = TRUE]
        ELSE [tried EXCEPT !.dest = @ \cup {d}, !.rows = Append(@, Row(f, s, env))]

\* os.walk(top): the (root, files) pairs top-down; a directory whose listing
\* faults is skipped silently (onerror is None).
RECURSIVE os_walk(_, _)
os_walk(top, env) ==
    IF Unlistable(top, env) THEN <<>>
    ELSE LET names == listdir(top, env)
             files == SelectSeq(names, LAMBDA p : ~isdir(p))
             subs == SelectSeq(names, LAMBDA p : isdir(p))
             RECURSIVE below(_)
             below(i) == IF i > Len(subs) THEN <<>>
                         ELSE os_walk(subs[i], env) \o below(i + 1)
         IN  <<[root |-> top, files |-> files]>> \o below(1)

\* The files of a walk, in the order the nested for loops reach them.
RECURSIVE WalkFiles(_)
WalkFiles(w) == IF w = <<>> THEN <<>> ELSE Head(w).files \o WalkFiles(Tail(w))

\* The result of a collection function.
\*   made: target_dir exists afterwards; entries: the files under target_dir;
\*   header: the header row was written; rows: the data rows of the manifest;
\*   attempted: the source files copy2 was called on; log: the levels logged;
\*   raised: an exception left the function; caught: the function's own
\*   outermost except clause caught one.
Result(made, entries, header, st, log, raised) ==
    [made |-> made, entries |-> entries, header |-> header, rows |-> st.rows,
     attempted |-> st.attempted, log |-> log, raised |-> raised, caught |-> FALSE]

NoResult == Result(FALSE, {}, FALSE, St0, {}, FALSE)

\* An exception caught by a collection function's own except clause: it is
\* logged as an error and the function returns normally.
Caught(made, entries, header, st) ==
    [Result(made, entries, header, st, {"error"}, FALSE) EXCEPT !.caught = TRUE]

\* Mutant: every file is copied directly under the destination prefix, under
\* its base name.
RECURSIVE CopyFiles_Flat(_, _, _, _, _)
CopyFiles_Flat(files, i, st, prefix, env) ==
    IF i > Len(files) \/ st.exc THEN st
    ELSE CopyFiles_Flat(files, i + 1,
                        CopyAndLog(st, FileId(files[i]), files[i],
                                   prefix \o <<basename(files[i])>>, env),
                        prefix, env)

\* The body of the nested for loops over a walk: one CopyAndLog per file, to
\* the destination prefix \o (path relative to the source root); the first
\* exception ends the loop.
RECURSIVE CopyFiles(_, _, _, _, _)
CopyFiles(files, i, st, prefix, env) ==
    IF i > Len(files) \/ st.exc THEN st
    ELSE CopyFiles(files, i + 1,
                   CopyAndLog(st, FileId(files[i]), files[i], prefix \o files[i], env),
                   prefix, env)

-----------------------------------------------------------------------------
(* prefetch_extractor.py *)

copy_prefetch_files(exists, env) ==
    IF env.setup = "srcMissing"
    THEN Result(exists, {}, FALSE, St0, {"warning"}, FALSE)
    ELSE IF ~exists /\ env.setup = "mkdirFault"
    THEN Caught(FALSE, {}, FALSE, St0)
    ELSE IF env.setup = "openFault"
    THEN Caught(TRUE, {}, FALSE, St0)
    ELSE LET st == CopyFiles(WalkFiles(os_walk(SrcRoot, env)), 1, St0,
                             <<"Windows", "Prefetch">>, env)
             entries == {<<"prefetch_files.csv">>} \cup st.dest
         IN  IF st.exc THEN Caught(TRUE, entries, TRUE, st)
             ELSE Result(TRUE, entries, TRUE, st, {"info"}, FALSE)

-----------------------------------------------------------------------------
(* teamviewer_extractor.py *)

\* Returns the traversal state, files_copied and the levels logged.
copy_files_from_path(st, env) ==
    IF env.setup = "srcMissing"
    THEN [st |-> st, n |-> 0, log |-> {"warning"}]
    ELSE LET files == SelectSeq(WalkFiles(os_walk(SrcRoot, env)),
                                LAMBDA p : FileExt[FileId(p)] \in {"txt", "log"})
             out == CopyFiles(files, 1, st, <<>>, env)
             n == Len(out.rows) - Len(st.rows)
         IN  [st |-> out, n |-> n, log |-> IF n > 0 THEN {"info"} ELSE {}]

copy_teamviewer_files(exists, env) ==
    IF ~exists /\ env.setup = "mkdirFault"
    THEN Caught(FALSE, {}, FALSE, St0)
    ELSE IF env.setup = "openFault"
    THEN Caught(TRUE, {}, FALSE, St0)
    ELSE LET c == copy_files_from_path(St0, env)
             entries == {<<"teamviewer_files.csv">>} \cup c.st.dest
         IN  IF c.st.exc
             THEN [Caught(TRUE, entries, TRUE, c.st) EXCEPT !.log = @ \cup c.log]
             ELSE Result(TRUE, entries, TRUE, c.st,
                         c.log \cup (IF c.n = 0 THEN {"warning"} ELSE {"info"}), FALSE)

-----------------------------------------------------------------------------
(* bet_extractor.py *)

\* os.makedirs(dst); os.listdir(src) (an exception when src is missing or
\* cannot be listed); then per item the recursion or the file step.  No
\* except clause: an exception ends every enclosing loop.
RECURSIVE copy_directory_with_metadata(_, _, _, _)
copy_directory_with_metadata(src, dst, st, env) ==
    IF Unlistable(src, env) THEN [st EXCEPT !.exc = TRUE]
    ELSE LET items == listdir(src, env)
             RECURSIVE loop(_, _)
             loop(i, s) ==
                 IF i > Len(items) \/ s.exc THEN s
                 ELSE LET d == dst \o <<basename(items[i])>>
                      IN  loop(i + 1,
                               IF isdir(items[i])
                               THEN copy_directory_with_metadata(items[i], d, s, env)
                               ELSE CopyAndLog(s, FileId(items[i]), items[i], d, env))
         IN  loop(1, st)

copy_bet_files(exists, env) ==
    IF ~exists /\ env.setup = "mkdirFault"
    THEN Caught(FALSE, {}, FALSE, St0)
    ELSE IF env.setup = "openFault"
    THEN Caught(TRUE, {}, FALSE, St0)
    ELSE LET st == copy_directory_with_metadata(SrcRoot, <<"Logs">>, St0, env)
             entries == {<<"bet_files.csv">>} \cup st.dest
         IN  IF st.exc THEN Caught(TRUE, entries, TRUE, st)
             ELSE Result(TRUE, entries, TRUE, st, {}, FALSE)

-----------------------------------------------------------------------------
(* browser_history_extractor.py                                            *)
(* File 1 is Edge's History, file 2 the places.sqlite of the Firefox       *)
(* profile p1, file 3 Chrome's History; directory 1 is the Firefox         *)
(* Profiles directory.  "srcMissing": no browser is installed.             *)

BrowserPath ==
    << <<"Edge", "History">>, <<"Firefox", "p1", "places.sqlite">>, <<"Chrome", "History">> >>

copy_file_with_metadata(st, f, env) ==
    CopyAndLog(st, f, BrowserPath[f], BrowserPath[f], env)

\* The try/except of one extract_<browser>_history: the exception is logged
\* and does not leave the function.
BrowserCopy(b, f, env) ==
    LET out == copy_file_with_metadata(b.st, f, env)
    IN  IF out.exc THEN [st |-> [out EXCEPT !.exc = FALSE], log |-> b.log \cup {"error"}]
        ELSE [st |-> out, log |-> b.log]

extract_edge_history(b, env) ==
    IF env.setup = "srcMissing" \/ env.fault[1] = "absent"
    THEN [b EXCEPT !.log = @ \cup {"warning"}]
    ELSE BrowserCopy(b, 1, env)

extract_firefox_history(b, env) ==
    IF env.setup = "srcMissing" THEN [b EXCEPT !.log = @ \cup {"warning"}]
    ELSE IF 1 \in env.listFault THEN [b EXCEPT !.log = @ \cup {"error"}]
    ELSE IF env.fault[2] = "absent" THEN b
    ELSE BrowserCopy(b, 2, env)

extract_chrome_history(b, env) ==
    IF env.setup = "srcMissing" THEN [b EXCEPT !.log = @ \cup {"warning"}]
    ELSE IF env.fault[3] = "absent" THEN b
    ELSE BrowserCopy(b, 3, env)

extract_browser_histories(exists, env) ==
    IF ~exists /\ env.setup = "mkdirFault"
    THEN Caught(FALSE, {}, FALSE, St0)
    ELSE IF env.setup = "openFault"
    THEN Caught(TRUE, {}, FALSE, St0)
    ELSE LET b == extract_chrome_history(
                      extract_firefox_history(
                          extract_edge_history([st |-> St0, log |-> {}], env), env), env)
         IN  Result(TRUE, {<<"browser_history.csv">>} \cup b.st.dest, TRUE, b.st, b.log, FALSE)

-----------------------------------------------------------------------------
(* installed_programs_extractor.py, process_extractor.py,                  *)
(* dir_tree_extractor.py                                                   *)

\* os.listdir(src) and the os.makedirs calls are not inside a try: their
\* exceptions leave the function.  One directory is created per top-level
\* directory of src, nothing is copied and no manifest is written.
copy_top_level_directories(exists, env) ==
    IF Unlistable(SrcRoot, env)
    THEN Result(exists, {}, FALSE, St0, {}, TRUE)
    ELSE LET top == SelectSeq(listdir(SrcRoot, env), LAMBDA p : isdir(p))
         IN  IF top # <<>> /\ env.setup = "mkdirFault"
             THEN Result(exists, {}, FALSE, St0, {}, TRUE)
             ELSE Result(exists \/ top # <<>>,
                         {<<basename(top[i])>> : i \in 1..Len(top)}, FALSE, St0, {}, FALSE)

save_running_processes(exists, env) ==
    IF ~exists /\ env.setup = "mkdirFault"
    THEN Caught(FALSE, {}, FALSE, St0)
    ELSE IF env.setup = "openFault"
    THEN Caught(TRUE, {}, FALSE, St0)
    ELSE Result(TRUE, {<<"running_processes.txt">>}, FALSE, St0, {"info"}, FALSE)

\* os.makedirs is outside generate_dir_tree's try: its exception leaves
\* extract_dir_tree.  generate_dir_tree catches every exception of its own.
extract_dir_tree(exists, env) ==
    IF ~exists /\ env.setup = "mkdirFault"
    THEN Result(FALSE, {}, FALSE, St0, {}, TRUE)
    ELSE IF env.setup = "openFault"
    THEN Result(TRUE, {}, FALSE, St0, {"error", "info"}, FALSE)
    ELSE Result(TRUE, {<<"dir_tree.txt">>}, FALSE, St0, {"info"}, FALSE)

-----------------------------------------------------------------------------
(* main.py: main(selected_modules, case_name, device_name) *)

\* The inputs a module's collection call can meet.
Envs(m) ==
    CASE m \in {"prefetch", "teamviewer", "bet"} ->
            FileEnvs \cup SetupEnvs({"srcMissing", "mkdirFault", "openFault"})
      [] m = "browser_history" ->
            {e \in FileEnvs : e.listFault \subseteq {1}}
            \cup SetupEnvs({"srcMissing", "mkdirFault", "openFault"})
      [] m = "installed_programs" -> SetupEnvs({"ok", "srcMissing", "mkdirFault"})
      [] OTHER -> SetupEnvs({"ok", "mkdirFault", "openFault"})

NoEntries == [d \in WorkDirs |-> {}]

\* cur: env and res are the inputs and the result of the last collection
\* call; exc is the call of the try block that raised ("none" while none
\* has); zipCalled are the directories zip_directory was called on, live
\* those of them that existed at the call and atCall the entries each held
\* at the call; rmCalled are the directories shutil.rmtree was called on.
CurInit ==
    [env |-> NoEnv, res |-> NoResult, exc |-> "none",
     atCall |-> NoEntries, zipCalled |-> {}, live |-> {}, rmCalled |-> {}]

\* The first selected module after position i of ModOrder.
NextSelected(i, S) ==
    LET later == {j \in (i + 1)..Len(ModOrder) : ModOrder[j] \in S}
    IN  IF later = {} THEN Len(ModOrder) + 1
        ELSE CHOOSE j \in later : \A k \in later : j <= k

Running == ~done /\ pc <= Len(ModOrder)
CurModule == ModOrder[pc]
InTry == Running /\ cur.exc = "none" /\ step <= Len(TaskOps(CurModule))
CurOp == TaskOps(CurModule)[step]
AtCollect(m) == InTry /\ CurModule = m /\ CurOp.kind = "collect"

\* gui.py: the 'Modules' column of the selector, in its declaration order:
\* module_name is the label of the checkbox, name the name of its BooleanVar.
modules ==
    << [module_name |-> "DirTree",            name |-> "dir_tree"],
       [module_name |-> "Prefetch",           name |-> "prefetch"],
       [module_name |-> "Processes",          name |-> "processes"],
       [module_name |-> "Installed Programs", name |-> "installed_programs"],
       [module_name |-> "TeamViewer",         name |-> "teamviewer"],
       [module_name |-> "BET",                name |-> "bet"],
       [module_name |-> "Browser History",    name |-> "browser_history"] >>

VarNames == {modules[i].name : i \in 1..Len(modules)}

\* What simpledialog.askstring returns: None when the dialog is cancelled
\* (ok is FALSE), the text of the entry otherwise.
Cancel == [ok |-> FALSE, text |-> ""]
Entry(s) == [ok |-> TRUE, text |-> s]

\* The state of the selector's objects when create_gui builds them: every
\* BooleanVar of modules at its default False, select_all_state True, the
\* toggle button labelled 'Select All', selected_modules empty.
GuiBuilt ==
    /\ case_name = Cancel
    /\ device_name = Cancel
    /\ checked = [m \in VarNames |-> FALSE]
    /\ select_all_state = TRUE
    /\ toggle_text = "Select All"
    /\ selected_modules = <<>>
    /\ batch_calls = <<>>
    /\ batch_file = <<>>
    /\ shown = "none"

\* The selector is not running.
GuiIdle == gpc = "idle" /\ GuiBuilt

\* generate_dir_tree is not running.
TreeIdle ==
    /\ tree_in = <<>>
    /\ tree_out = <<>>
    /\ tpc = "idle"

\* The main run alone: the per-file loop is not running.
FilesIdle ==
    /\ target_exists = FALSE
    /\ csv_file = "unopened"
    /\ srcData = [f \in FileIds |-> <<>>]
    /\ dstData = [f \in FileIds |-> <<>>]
    /\ copied = {}
    /\ modified = {}
    /\ fileIdx = 1
    /\ fpc = "idle"
    /\ hash_md5 = <<>>
    /\ offset = 0
    /\ creation_date = None
    /\ last_access_date = None
    /\ md5_checksum = None
    /\ csv_rows = <<>>
    /\ trace = <<>>

Init ==
    /\ FilesIdle
    /\ TreeIdle
    /\ GuiIdle
    /\ selected \in {S \in SUBSET Modules : Cardinality(S) <= MaxSelected}
    /\ pc = NextSelected(0, selected)
    /\ step = 1
    /\ taskLog = [m \in Modules |-> "none"]
    /\ calls = [m \in Modules |-> 0]
    /\ dirs = {}
    /\ zips = {}
    /\ work = NoEntries
    /\ zipped = NoEntries
    /\ cur = CurInit
    /\ done = FALSE

\* The effect on main of a collection call that returned r (or raised).
Collected(m, d, env, r) ==
    /\ calls' = [calls EXCEPT ![m] = @ + 1]
    /\ dirs' = IF r.made THEN dirs \cup {d} ELSE dirs
    /\ work' = [work EXCEPT ![d] = r.entries]
    /\ cur' = [cur EXCEPT !.env = env, !.res = r,
                          !.exc = IF r.raised THEN "collect" ELSE "none"]
    /\ step' = step + 1
    /\ UNCHANGED <<selected, pc, taskLog, zips, zipped, done>>
    /\ UNCHANGED <<fileVars, treeVars, guiVars>>

CopyPrefetchFiles ==
    /\ AtCollect("prefetch")
    /\ \E env \in Envs("prefetch") :
          Collected("prefetch", CurOp.dir, env, copy_prefetch_files(CurOp.dir \in dirs, env))

ExtractDirTree ==
    /\ AtCollect("dir_tree")
    /\ \E env \in Envs("dir_tree") :
          Collected("dir_tree", CurOp.dir, env, extract_dir_tree(CurOp.dir \in dirs, env))

SaveRunningProcesses ==
    /\ AtCollect("processes")
    /\ \E env \in Envs("processes") :
          Collected("processes", CurOp.dir, env, save_running_processes(CurOp.dir \in dirs, env))

CopyTopLevelDirectories ==
    /\ AtCollect("installed_programs")
    /\ \E env \in Envs("installed_programs") :
          Collected("installed_programs", CurOp.dir, env,
                    copy_top_level_directories(CurOp.dir \in dirs, env))

CopyTeamviewerFiles ==
    /\ AtCollect("teamviewer")
    /\ \E env \in Envs("teamviewer") :
          Collected("teamviewer", CurOp.dir, env, copy_teamviewer_files(CurOp.dir \in dirs, env))

CopyBetFiles ==
    /\ AtCollect("bet")
    /\ \E env \in Envs("bet") :
          Collected("bet", CurOp.dir, env, copy_bet_files(CurOp.dir \in dirs, env))

ExtractBrowserHistories ==
    /\ AtCollect("browser_history")
    /\ \E env \in Envs("browser_history") :
          Collected("browser_history", CurOp.dir, env,
                    extract_browser_histories(CurOp.dir \in dirs, env))

\* shutil.make_archive(zip_name, 'zip', directory_path): raises when the
\* directory does not exist or the archive cannot be written (ok = FALSE);
\* otherwise the archive holds the directory's tree.
MakeArchive ==
    /\ InTry /\ CurOp.kind = "make_archive"
    /\ LET d == CurOp.dir IN
       \E ok \in BOOLEAN :
          LET raised == d \notin dirs \/ ~ok IN
          /\ cur' = [cur EXCEPT !.atCall[d] = work[d], !.zipCalled = @ \cup {d},
                                !.live = @ \cup ({d} \cap dirs),
                                !.exc = IF raised THEN "make_archive" ELSE "none"]
          /\ zips' = IF raised THEN zips ELSE zips \cup {d}
          /\ zipped' = IF raised THEN zipped ELSE [zipped EXCEPT ![d] = work[d]]
          /\ step' = step + 1
    /\ UNCHANGED <<selected, pc, taskLog, calls, dirs, work, done>>
    /\ UNCHANGED <<fileVars, treeVars, guiVars>>

\* Mutant: shutil.rmtree(directory_path, ignore_errors=True).
Rmtree_IgnoreErrors ==
    /\ InTry /\ CurOp.kind = "rmtree"
    /\ LET d == CurOp.dir IN
       \E ok \in BOOLEAN :
          /\ cur' = [cur EXCEPT !.rmCalled = @ \cup {d}]
          /\ dirs' = IF ok THEN dirs \ {d} ELSE dirs
          /\ work' = IF ok THEN [work EXCEPT ![d] = {}] ELSE work
          /\ step' = step + 1
    /\ UNCHANGED <<selected, pc, taskLog, calls, zips, zipped, done>>
    /\ UNCHANGED <<fileVars, treeVars, guiVars>>

\* shutil.rmtree(directory_path): removes the tree, or raises (ok = FALSE)
\* at an entry it cannot delete.
Rmtree ==
    /\ InTry /\ CurOp.kind = "rmtree"
    /\ LET d == CurOp.dir IN
       \E ok \in BOOLEAN :
          /\ cur' = [cur EXCEPT !.rmCalled = @ \cup {d},
                                !.exc = IF ok THEN "none" ELSE "rmtree"]
          /\ dirs' = IF ok THEN dirs \ {d} ELSE dirs
          /\ work' = IF ok THEN [work EXCEPT ![d] = {}] ELSE work
          /\ step' = step + 1
    /\ UNCHANGED <<selected, pc, taskLog, calls, zips, zipped, done>>
    /\ UNCHANGED <<fileVars, treeVars, guiVars>>

\* Mutant: the except clause logs the failure and re-raises, which ends main.
Report_Reraise ==
    /\ Running /\ ~InTry
    /\ taskLog' = [taskLog EXCEPT ![CurModule] =
                      IF cur.exc = "none" THEN "completed" ELSE "failed"]
    /\ pc' = IF cur.exc = "none" THEN NextSelected(pc, selected) ELSE Len(ModOrder) + 1
    /\ step' = 1
    /\ cur' = CurInit
    /\ work' = NoEntries
    /\ zipped' = NoEntries
    /\ UNCHANGED <<selected, calls, dirs, zips, done>>
    /\ UNCHANGED <<fileVars, treeVars, guiVars>>

\* The end of a try block: logging.info("... completed in ...") after its
\* last call, or the except clause's logging.error("... failed: ...");
\* then main goes on to the next selected module.
Report ==
    /\ Running /\ ~InTry
    /\ taskLog' = [taskLog EXCEPT ![CurModule] =
                      IF cur.exc = "none" THEN "completed" ELSE "failed"]
    /\ pc' = NextSelected(pc, selected)
    /\ step' = 1
    /\ cur' = CurInit
    /\ work' = NoEntries
    /\ zipped' = NoEntries
    /\ UNCHANGED <<selected, calls, dirs, zips, done>>
    /\ UNCHANGED <<fileVars, treeVars, guiVars>>

\* logging.info("Data extraction completed. Only ZIP files are left ...")
Finish ==
    /\ ~done /\ pc > Len(ModOrder)
    /\ done' = TRUE
    /\ UNCHANGED <<selected, pc, step, taskLog, calls, dirs, zips, work, zipped, cur>>
    /\ UNCHANGED <<fileVars, treeVars, guiVars>>

Next ==
    \/ CopyPrefetchFiles
    \/ ExtractDirTree
    \/ SaveRunningProcesses
    \/ CopyTopLevelDirectories
    \/ CopyTeamviewerFiles
    \/ CopyBetFiles
    \/ ExtractBrowserHistories
    \/ MakeArchive
    \/ Rmtree
    \/ Report
    \/ Finish

Spec == Init /\ [][Next]_vars

-----------------------------------------------------------------------------
(* One call of copy_prefetch_files, call by call.                          *)
(* prefetch_extractor.py, lines 36-74: the check of the source directory,  *)
(* os.makedirs(target_dir), the with block that opens the manifest, the    *)
(* header row, and for every file of the walk shutil.copy2,                *)
(* os.path.getctime, os.path.getatime, calculate_md5 (open, read chunk by  *)
(* chunk, hexdigest) and csv_writer.writerow; then the exit of the with    *)
(* block and the return or the except clause.  Every call can fault;       *)
(* between two calls of the loop another process of the live machine can   *)
(* write to a source file.                                                 *)

\* f.read(4096) reads at most ChunkSize bytes (4096 scaled down).
ChunkSize == 2


Byte == {0, 1}

RECURSIVE SeqsUpTo(_)
SeqsUpTo(n) ==
    IF n = 0 THEN {<<>>}
    ELSE LET shorter == SeqsUpTo(n - 1)
         IN  shorter \cup {Append(c, b) : c \in {x \in shorter : Len(x) = n - 1}, b \in Byte}

\* The contents the first file of the walk can have: every length up to two
\* full chunks; the other files are empty or hold one byte.
Contents == SeqsUpTo(2 * ChunkSize)
ShortContents == SeqsUpTo(1)

\* The files in the order the nested for loops reach them.
LoopFiles == WalkFiles(os_walk(SrcRoot, NoEnv))
CurFile == FileId(LoopFiles[fileIdx])

\* source_file and target_file of file f.
source_file(f) == <<"source">> \o FilePath[f]
target_file(f) == <<"target", "Windows", "Prefetch">> \o FilePath[f]

\* os.path.getctime(p), os.path.getatime(p): the timestamp stored for path p.
getctime(p) == <<"ctime", p>>
getatime(p) == <<"atime", p>>

\* hashlib: the digest of a byte string; update() calls are equivalent to one
\* call with the concatenation of their arguments.
hexdigest(bytes) == <<"md5", bytes>>

\* One call of the loop body: the function called and the path passed to it.
Call(fn, p) == [fn |-> fn, path |-> p]

\* The main run is not part of this specification.
MainIdle ==
    /\ selected = {}
    /\ pc = NextSelected(0, {})
    /\ step = 1
    /\ taskLog = [m \in Modules |-> "none"]
    /\ calls = [m \in Modules |-> 0]
    /\ dirs = {}
    /\ zips = {}
    /\ work = NoEntries
    /\ zipped = NoEntries
    /\ cur = CurInit
    /\ done = FALSE

\* The header row of the manifest.
HeaderRow ==
    [name |-> "File Name", path |-> <<"File Path">>, created |-> <<"Creation Date">>,
     accessed |-> <<"Last Access Date">>, digest |-> <<"MD5 Checksum">>]

\* The positions inside the loop body.
LoopPcs == {"copy2", "getctime", "getatime", "md5_open", "md5_read", "writerow"}

InitFiles ==
    /\ MainIdle
    /\ TreeIdle
    /\ GuiIdle
    /\ target_exists \in BOOLEAN
    /\ csv_file = "unopened"
    /\ srcData \in {d \in [FileIds -> Contents] :
                       \A f \in FileIds : f # FileId(LoopFiles[1]) => d[f] \in ShortContents}
    /\ dstData = [f \in FileIds |-> <<>>]
    /\ copied = {}
    /\ modified = {}
    /\ fileIdx = 1
    /\ fpc = "exists"
    /\ hash_md5 = <<>>
    /\ offset = 0
    /\ creation_date = None
    /\ last_access_date = None
    /\ md5_checksum = None
    /\ csv_rows = <<>>
    /\ trace = <<>>

\* if not os.path.exists(prefetch_dir): logging.warning(...); return
SourceExists ==
    /\ fpc = "exists"
    /\ \E exists \in BOOLEAN : fpc' = IF exists THEN "makedirs" ELSE "returned"
    /\ UNCHANGED <<setupVars, srcData, dstData, copied, modified, fileIdx, hash_md5,
                   offset, creation_date, last_access_date, md5_checksum, csv_rows, trace>>
    /\ UNCHANGED <<mainVars, treeVars, guiVars>>

\* if not os.path.exists(target_dir): os.makedirs(target_dir)
Makedirs ==
    /\ fpc = "makedirs"
    /\ \E ok \in BOOLEAN :
          IF target_exists \/ ok
          THEN target_exists' = TRUE /\ fpc' = "open"
          ELSE target_exists' = FALSE /\ fpc' = "raised"
    /\ UNCHANGED <<csv_file, srcData, dstData, copied, modified, fileIdx, hash_md5,
                   offset, creation_date, last_access_date, md5_checksum, csv_rows, trace>>
    /\ UNCHANGED <<mainVars, treeVars, guiVars>>

\* with open(csv_file_path, mode='w', ...) as csv_file:
OpenManifest ==
    /\ fpc = "open"
    /\ \E ok \in BOOLEAN :
          IF ok
          THEN csv_file' = "open" /\ fpc' = "header"
          ELSE csv_file' = csv_file /\ fpc' = "raised"
    /\ UNCHANGED <<target_exists, srcData, dstData, copied, modified, fileIdx, hash_md5,
                   offset, creation_date, last_access_date, md5_checksum, csv_rows, trace>>
    /\ UNCHANGED <<mainVars, treeVars, guiVars>>

\* Mutant: the loop over the files begins without the header row written.
WriteHeader_Skip ==
    /\ fpc = "header"
    /\ fpc' = IF LoopFiles = <<>> THEN "end" ELSE "copy2"
    /\ UNCHANGED <<setupVars, srcData, dstData, copied, modified, fileIdx, hash_md5,
                   offset, creation_date, last_access_date, md5_checksum, csv_rows, trace>>
    /\ UNCHANGED <<mainVars, treeVars, guiVars>>

\* csv_writer.writerow(["File Name", "File Path", ...]); then the loop begins.
WriteHeader ==
    /\ fpc = "header"
    /\ \E ok \in BOOLEAN :
          IF ok
          THEN /\ csv_rows' = Append(csv_rows, HeaderRow)
               /\ fpc' = IF LoopFiles = <<>> THEN "end" ELSE "copy2"
          ELSE /\ csv_rows' = csv_rows
               /\ fpc' = "raised"
    /\ UNCHANGED <<setupVars, srcData, dstData, copied, modified, fileIdx, hash_md5,
                   offset, creation_date, last_access_date, md5_checksum, trace>>
    /\ UNCHANGED <<mainVars, treeVars, guiVars>>

\* Mutant: the manifest is opened without a with block and closed by a
\* csv_file.close() after the loop, which an exception skips.
WithExit_NotOnException(handle, at) ==
    IF handle = "open" /\ at = "end" THEN "closed" ELSE handle

\* The exit of the with block, reached at the end of its body (at = "end") or
\* by an exception propagating out of it (at = "raised"): an open manifest is
\* closed.
WithExit(handle, at) ==
    IF handle = "open" THEN "closed" ELSE handle

\* The end of the call: the exit of the with block, then logging.info(...)
\* and the return, or the except clause's logging.error(...) and the return.
Return ==
    /\ fpc \in {"end", "raised"}
    /\ csv_file' = WithExit(csv_file, fpc)
    /\ fpc' = "returned"
    /\ UNCHANGED <<target_exists, srcData, dstData, copied, modified, fileIdx, hash_md5,
                   offset, creation_date, last_access_date, md5_checksum, csv_rows, trace>>
    /\ UNCHANGED <<mainVars, treeVars, guiVars>>

\* shutil.copy2(source_file, target_file); an exception leaves the loop.
Copy2 ==
    /\ fpc = "copy2"
    /\ trace' = Append(trace, Call("copy2", source_file(CurFile)))
    /\ \E ok \in BOOLEAN :
          IF ok
          THEN /\ dstData' = [dstData EXCEPT ![CurFile] = srcData[CurFile]]
               /\ copied' = copied \cup {CurFile}
               /\ fpc' = "getctime"
          ELSE /\ fpc' = "raised"
               /\ UNCHANGED <<dstData, copied>>
    /\ UNCHANGED <<srcData, modified, fileIdx, hash_md5, offset, creation_date,
                   last_access_date, md5_checksum, csv_rows>>
    /\ UNCHANGED <<setupVars, mainVars, treeVars, guiVars>>

\* Mutant: the creation date is read from the copy.
Getctime_FromTarget ==
    /\ fpc = "getctime"
    /\ trace' = Append(trace, Call("getctime", target_file(CurFile)))
    /\ \E ok \in BOOLEAN :
          IF ok
          THEN creation_date' = getctime(target_file(CurFile)) /\ fpc' = "getatime"
          ELSE creation_date' = creation_date /\ fpc' = "raised"
    /\ UNCHANGED <<srcData, dstData, copied, modified, fileIdx, hash_md5, offset,
                   last_access_date, md5_checksum, csv_rows>>
    /\ UNCHANGED <<setupVars, mainVars, treeVars, guiVars>>

\* creation_date = os.path.getctime(source_file)
Getctime ==
    /\ fpc = "getctime"
    /\ trace' = Append(trace, Call("getctime", source_file(CurFile)))
    /\ \E ok \in BOOLEAN :
          IF ok
          THEN creation_date' = getctime(source_file(CurFile)) /\ fpc' = "getatime"
          ELSE creation_date' = creation_date /\ fpc' = "raised"
    /\ UNCHANGED <<srcData, dstData, copied, modified, fileIdx, hash_md5, offset,
                   last_access_date, md5_checksum, csv_rows>>
    /\ UNCHANGED <<setupVars, mainVars, treeVars, guiVars>>

\* last_access_date = os.path.getatime(source_file)
Getatime ==
    /\ fpc = "getatime"
    /\ trace' = Append(trace, Call("getatime", source_file(CurFile)))
    /\ \E ok \in BOOLEAN :
          IF ok
          THEN last_access_date' = getatime(source_file(CurFile)) /\ fpc' = "md5_open"
          ELSE last_access_date' = last_access_date /\ fpc' = "raised"
    /\ UNCHANGED <<srcData, dstData, copied, modified, fileIdx, hash_md5, offset,
                   creation_date, md5_checksum, csv_rows>>
    /\ UNCHANGED <<setupVars, mainVars, treeVars, guiVars>>

\* calculate_md5: hash_md5 = hashlib.md5(); open(file_path, "rb") inside the
\* try.  An exception of open is caught: calculate_md5 returns None.
Md5Open ==
    /\ fpc = "md5_open"
    /\ trace' = Append(trace, Call("calculate_md5", source_file(CurFile)))
    /\ hash_md5' = <<>>
    /\ offset' = 0
    /\ \E ok \in BOOLEAN :
          IF ok
          THEN md5_checksum' = md5_checksum /\ fpc' = "md5_read"
          ELSE md5_checksum' = None /\ fpc' = "writerow"
    /\ UNCHANGED <<srcData, dstData, copied, modified, fileIdx, creation_date,
                   last_access_date, csv_rows>>
    /\ UNCHANGED <<setupVars, mainVars, treeVars, guiVars>>

\* f.read(4096) at the read position: at most ChunkSize bytes, b"" at the end
\* of the file.
read(f) ==
    LET data == srcData[f]
        last == IF offset + ChunkSize < Len(data) THEN offset + ChunkSize ELSE Len(data)
    IN  SubSeq(data, offset + 1, last)

\* Mutant: the loop ends at the first chunk shorter than ChunkSize, which is
\* not fed to the hash object.
Md5Read_DropShortChunk ==
    /\ fpc = "md5_read"
    /\ LET chunk == read(CurFile) IN
       \E ok \in BOOLEAN :
          IF ~ok
          THEN md5_checksum' = None /\ fpc' = "writerow" /\ UNCHANGED <<hash_md5, offset>>
          ELSE IF Len(chunk) < ChunkSize
          THEN /\ md5_checksum' = hexdigest(hash_md5)
               /\ fpc' = "writerow"
               /\ UNCHANGED <<hash_md5, offset>>
          ELSE /\ hash_md5' = hash_md5 \o chunk
               /\ offset' = offset + Len(chunk)
               /\ UNCHANGED <<md5_checksum, fpc>>
    /\ UNCHANGED <<srcData, dstData, copied, modified, fileIdx, creation_date,
                   last_access_date, csv_rows, trace>>
    /\ UNCHANGED <<setupVars, mainVars, treeVars, guiVars>>

\* Mutant: only open() is inside the try; an exception of f.read leaves
\* calculate_md5 and the loop.
Md5Read_Unguarded ==
    /\ fpc = "md5_read"
    /\ LET chunk == read(CurFile) IN
       \E ok \in BOOLEAN :
          IF ~ok
          THEN fpc' = "raised" /\ UNCHANGED <<md5_checksum, hash_md5, offset>>
          ELSE IF chunk = <<>>
          THEN /\ md5_checksum' = hexdigest(hash_md5)
               /\ fpc' = "writerow"
               /\ UNCHANGED <<hash_md5, offset>>
          ELSE /\ hash_md5' = hash_md5 \o chunk
               /\ offset' = offset + Len(chunk)
               /\ UNCHANGED <<md5_checksum, fpc>>
    /\ UNCHANGED <<srcData, dstData, copied, modified, fileIdx, creation_date,
                   last_access_date, csv_rows, trace>>
    /\ UNCHANGED <<setupVars, mainVars, treeVars, guiVars>>

\* One round of "for chunk in iter(lambda: f.read(4096), b'')": the chunk is
\* fed to the hash object, or, when the read returned b"", the loop ends and
\* calculate_md5 returns hash_md5.hexdigest().  An exception of the read is
\* caught: calculate_md5 returns None.
Md5Read ==
    /\ fpc = "md5_read"
    /\ LET chunk == read(CurFile) IN
       \E ok \in BOOLEAN :
          IF ~ok
          THEN md5_checksum' = None /\ fpc' = "writerow" /\ UNCHANGED <<hash_md5, offset>>
          ELSE IF chunk = <<>>
          THEN /\ md5_checksum' = hexdigest(hash_md5)
               /\ fpc' = "writerow"
               /\ UNCHANGED <<hash_md5, offset>>
          ELSE /\ hash_md5' = hash_md5 \o chunk
               /\ offset' = offset + Len(chunk)
               /\ UNCHANGED <<md5_checksum, fpc>>
    /\ UNCHANGED <<srcData, dstData, copied, modified, fileIdx, creation_date,
                   last_access_date, csv_rows, trace>>
    /\ UNCHANGED <<setupVars, mainVars, treeVars, guiVars>>

\* csv_writer.writerow([file_name, source_file, creation_date,
\* last_access_date, md5_checksum]); then the loop goes on to the next file.
Writerow ==
    /\ fpc = "writerow"
    /\ trace' = Append(trace, Call("writerow", source_file(CurFile)))
    /\ \E ok \in BOOLEAN :
          IF ok
          THEN /\ csv_rows' = Append(csv_rows,
                                     [name |-> basename(FilePath[CurFile]),
                                      path |-> source_file(CurFile),
                                      created |-> creation_date,
                                      accessed |-> last_access_date,
                                      digest |-> md5_checksum])
               /\ fileIdx' = fileIdx + 1
               /\ fpc' = IF fileIdx = Len(LoopFiles) THEN "end" ELSE "copy2"
          ELSE /\ fpc' = "raised"
               /\ UNCHANGED <<csv_rows, fileIdx>>
    /\ UNCHANGED <<srcData, dstData, copied, modified, hash_md5, offset, creation_date,
                   last_access_date, md5_checksum>>
    /\ UNCHANGED <<setupVars, mainVars, treeVars, guiVars>>

\* Another process of the live machine appends a byte to a source file (once,
\* to the first file of the walk).
Modify ==
    /\ fpc \in LoopPcs
    /\ \E f \in {FileId(LoopFiles[1])} \ modified, b \in Byte :
          /\ srcData' = [srcData EXCEPT ![f] = Append(@, b)]
          /\ modified' = modified \cup {f}
    /\ UNCHANGED <<dstData, copied, fileIdx, fpc, hash_md5, offset, creation_date,
                   last_access_date, md5_checksum, csv_rows, trace>>
    /\ UNCHANGED <<setupVars, mainVars, treeVars, guiVars>>

NextFiles ==
    \/ SourceExists
    \/ Makedirs
    \/ OpenManifest
    \/ WriteHeader
    \/ Return
    \/ Copy2
    \/ Getctime
    \/ Getatime
    \/ Md5Open
    \/ Md5Read
    \/ Writerow
    \/ Modify

SpecFiles == InitFiles /\ [][NextFiles]_vars

-----------------------------------------------------------------------------
(* dir_tree_extractor.py: generate_dir_tree(start_path, output_file)       *)
(*                                                                         *)
(* The structure under start_path: up to three entries a, b, c in the      *)
(* root, entries x, y in a and x in b.  An entry is a file, a directory    *)
(* or (c only) a link that os.path.isdir reports as a directory: to the    *)
(* root, its own ancestor, or to the directory a.  A line of the output    *)
(* is the sequence of the strings concatenated into it.                    *)

\* The depth of nested tree() calls at which the interpreter or the
\* operating system gives up (the recursion limit, the longest path).
RecursionLimit == 2

NameOrder == <<"a", "b", "c", "x", "y">>
Ord(n) == CHOOSE i \in 1..Len(NameOrder) : NameOrder[i] = n

TreePaths == {<<"a">>, <<"b">>, <<"c">>, <<"a", "x">>, <<"a", "y">>, <<"b", "x">>}
TreeRoot == <<>>

ListFaults == {"PermissionError", "FileNotFoundError", "OSError"}

\* The kinds of the entries: a well-formed structure.
TreeKinds ==
    {k \in [TreePaths -> {"none", "file", "dir", "link_root", "link_a"}] :
        /\ \A p \in TreePaths :
              /\ k[p] \in {"link_root", "link_a"} => p = <<"c">>
              /\ Len(p) = 2 /\ k[p] # "none" => k[SubSeq(p, 1, 1)] = "dir"
        /\ k[<<"c">>] = "link_a" => k[<<"a">>] = "dir"}

\* The directories of a structure.
TreeDirs(k) == {TreeRoot} \cup {p \in TreePaths : k[p] = "dir"}

NoListFault == [p \in {TreeRoot} \cup TreePaths |-> "none"]

\* The inputs of one call: the kinds; fault, the exception os.listdir raises
\* on a directory (on at most one); raw, the order in which os.listdir
\* returns the names; deep, what ends an endless descent through a link:
\* the recursion limit ("recursion": RecursionError), the length of the path
\* at os.listdir ("path": FileNotFoundError) or the length of the path at
\* os.path.isdir ("stat": isdir is False, the entry is taken for a file).
TreeInputs ==
    UNION {
        {[kind |-> k, fault |-> f, raw |-> r, deep |-> d] :
            f \in {NoListFault} \cup
                  {[NoListFault EXCEPT ![p] = e] : p \in TreeDirs(k), e \in ListFaults},
            r \in {"asc", "desc"},
            d \in IF k[<<"c">>] = "link_root" THEN {"recursion", "path", "stat"}
                  ELSE {"path"}}
        : k \in TreeKinds}

\* The directory a path leads to, links followed.
RECURSIVE RealOf(_, _)
RealOf(in, p) ==
    IF p = TreeRoot THEN TreeRoot
    ELSE LET e == RealOf(in, SubSeq(p, 1, Len(p) - 1)) \o <<p[Len(p)]>>
         IN  CASE in.kind[e] = "link_root" -> TreeRoot
               [] in.kind[e] = "link_a" -> <<"a">>
               [] OTHER -> e

\* The entry a path names: the entry of that name in the directory its
\* parent path leads to.
EntryOf(in, p) == RealOf(in, SubSeq(p, 1, Len(p) - 1)) \o <<p[Len(p)]>>

\* os.path.isdir(full_path)
tree_isdir(in, p) ==
    EntryOf(in, p) \in TreePaths /\ in.kind[EntryOf(in, p)] \in {"dir", "link_root", "link_a"}

RECURSIVE Reverse(_)
Reverse(q) == IF q = <<>> THEN <<>> ELSE Append(Reverse(Tail(q)), Head(q))

\* os.listdir(dir_path) of a listable directory: the names, in raw order.
os_listdir(in, dir_path) ==
    LET d == RealOf(in, dir_path)
        asc == SelectSeq(NameOrder,
                         LAMBDA n : d \o <<n>> \in TreePaths /\ in.kind[d \o <<n>>] # "none")
    IN  IF in.raw = "asc" THEN asc ELSE Reverse(asc)

\* sorted(names): ascending by name.
RECURSIVE sorted(_)
sorted(q) ==
    IF q = <<>> THEN <<>>
    ELSE LET i == CHOOSE i \in 1..Len(q) : \A j \in 1..Len(q) : Ord(q[i]) <= Ord(q[j])
         IN  <<q[i]>> \o sorted(SelectSeq(q, LAMBDA n : n # q[i]))

\* contents.index(item)
index(contents, item) ==
    CHOOSE i \in 1..Len(contents) :
        contents[i] = item /\ \A j \in 1..(i - 1) : contents[j] # item

\* Mutant: every entry gets the connector of a last entry.
connector_AlwaysTerminal(pointer) == "+-- "

\* connector: the box-drawing corner for the last entry, the tee for every
\* earlier one (corner, tee and bar are written +-- , |-- and | here).
connector(pointer) == IF pointer THEN "+-- " ELSE "|-- "

\* extension: four blanks below a last entry, bar and three blanks otherwise.
extension(pointer) == IF pointer THEN "    " ELSE "|   "

\* A line written for an entry, and the line written when os.listdir raised
\* on dir_path.
EntryLine(text, full_path) == [text |-> text, entry |-> full_path, sentinel |-> FALSE]
SentinelLine(prefix, what, dir_path) ==
    [text |-> prefix \o <<"    " \o what>>, entry |-> dir_path, sentinel |-> TRUE]

\* What the traversal threads through: the lines written, the paths
\* os.listdir was called on, and the exception propagating ("none" if none).
TreeSt0 == [lines |-> <<>>, listed |-> <<>>, exc |-> "none"]

\* tree(dir_path, prefix), called at nesting depth depth.  PermissionError
\* and FileNotFoundError of os.listdir are caught: a sentinel line, return.
\* Any other exception is caught neither here nor by the try inside the
\* caller's loop: it ends every enclosing loop.
RECURSIVE tree(_, _, _, _, _)
tree(in, dir_path, prefix, depth, st) ==
    LET listed == [st EXCEPT !.listed = Append(@, dir_path)]
        raised == IF depth > RecursionLimit THEN "FileNotFoundError"
                  ELSE in.fault[RealOf(in, dir_path)]
    IN  IF depth > RecursionLimit /\ in.deep = "recursion"
        THEN [st EXCEPT !.exc = "RecursionError"]
        ELSE IF raised = "PermissionError"
        THEN [listed EXCEPT !.lines = Append(@, SentinelLine(prefix, "[Permission Denied]", dir_path))]
        ELSE IF raised = "FileNotFoundError"
        THEN [listed EXCEPT !.lines = Append(@, SentinelLine(prefix, "[File Not Found]", dir_path))]
        ELSE IF raised # "none"
        THEN [listed EXCEPT !.exc = raised]
        ELSE LET contents == sorted(os_listdir(in, dir_path))
                 RECURSIVE loop(_, _)
                 loop(i, s) ==
                     IF i > Len(contents) \/ s.exc # "none" THEN s
                     ELSE LET path == contents[i]
                              pointer == index(contents, path) = Len(contents)
                              full_path == dir_path \o <<path>>
                              line == prefix \o <<connector(pointer), path>>
                              written == [s EXCEPT !.lines = Append(@, EntryLine(line, full_path))]
                          IN  loop(i + 1,
                                   IF /\ tree_isdir(in, full_path)
                                      /\ ~(depth >= RecursionLimit /\ in.deep = "stat")
                                   THEN tree(in, full_path, prefix \o <<extension(pointer)>>,
                                             depth + 1, written)
                                   ELSE written)
             IN  loop(1, listed)

\* Mutant: the output file is opened without a with block and closed by an
\* f.close() after tree(start_path), which an exception skips.
generate_dir_tree_NoWith(in) ==
    LET r == tree(in, TreeRoot, <<>>, 0, TreeSt0)
    IN  [lines |-> r.lines, listed |-> r.listed, exc |-> r.exc, closed |-> r.exc = "none",
         log |-> IF r.exc = "none" THEN "info" ELSE "error"]

\* generate_dir_tree: the with block opens and closes the output file; an
\* exception that leaves tree() is caught and logged as an error.
generate_dir_tree(in) ==
    LET r == tree(in, TreeRoot, <<>>, 0, TreeSt0)
    IN  [lines |-> r.lines, listed |-> r.listed, exc |-> r.exc, closed |-> TRUE,
         log |-> IF r.exc = "none" THEN "info" ELSE "error"]

InitTree ==
    /\ MainIdle
    /\ FilesIdle
    /\ GuiIdle
    /\ tree_in \in TreeInputs
    /\ tree_out = <<>>
    /\ tpc = "ready"

GenerateDirTree ==
    /\ tpc = "ready"
    /\ tree_out' = generate_dir_tree(tree_in)
    /\ tpc' = "done"
    /\ UNCHANGED <<tree_in, mainVars, fileVars, guiVars>>

NextTree == GenerateDirTree

SpecTree == InitTree /\ [][NextTree]_vars

\* Returns: the step that takes the call from its start to its return.
\* GenerateDirTree is the only step of NextTree that does so.
Returns == tpc = "ready" /\ tpc' = "done"

\* The call, once made, runs: nothing else is scheduled, so the interpreter
\* does not stop before the return while a return is possible.
SpecTreeFair == SpecTree /\ WF_tpc(Returns)

-----------------------------------------------------------------------------
(* gui.py: create_gui and its callbacks *)

\* The texts a user leaves in the entry of a dialog.
Texts == {"", " ", "op1"}
Answers == {Cancel} \cup {Entry(s) : s \in Texts}

\* bool(x) of an askstring result: None and the empty string are false.
truthy(a) == a.ok /\ a.text # ""

current_date == "date"

\* " ".join(names): the names with one separator between neighbours.
RECURSIVE Join(_)
Join(names) ==
    IF Len(names) <= 1 THEN names
    ELSE <<names[1], " ">> \o Join(Tail(names))

\* batch_dir: <base_dir>/cases/<case_name>_<current_date>/<device_name>.
batch_dir_of(cn, dn) == <<"cases", <<cn.text, "_", current_date>>, dn.text>>

InitGui ==
    /\ MainIdle
    /\ FilesIdle
    /\ TreeIdle
    /\ gpc = "ask_case"
    /\ GuiBuilt

\* The first while loop: askstring for the case name; a false answer leads
\* to prompt_retry_abort, any other one leaves the loop.
AskCaseName ==
    /\ gpc = "ask_case"
    /\ \E answer \in Answers :
          /\ case_name' = answer
          /\ gpc' = IF truthy(answer) THEN "ask_device" ELSE "retry_case"
    /\ UNCHANGED <<device_name, checked, select_all_state, toggle_text,
                   selected_modules, batch_calls, batch_file, shown>>
    /\ UNCHANGED <<mainVars, fileVars, treeVars>>

\* prompt_retry_abort: askretrycancel; Retry returns "retry" and the loop
\* asks again, Cancel ends the process with sys.exit().
prompt_retry_abort ==
    /\ gpc \in {"retry_case", "retry_device"}
    /\ \E result \in BOOLEAN :
          gpc' = IF ~result THEN "exit"
                 ELSE IF gpc = "retry_case" THEN "ask_case" ELSE "ask_device"
    /\ shown' = "Input Error"
    /\ UNCHANGED <<case_name, device_name, checked, select_all_state, toggle_text,
                   selected_modules, batch_calls, batch_file>>
    /\ UNCHANGED <<mainVars, fileVars, treeVars>>

\* The second while loop, and after it the set-up of create_gui up to
\* root.mainloop(): the directories are made (os.makedirs can raise, which
\* ends the process), logging is configured, the window is built.
AskDeviceName ==
    /\ gpc = "ask_device"
    /\ \E answer \in Answers, made \in BOOLEAN :
          /\ device_name' = answer
          /\ gpc' = IF ~truthy(answer) THEN "retry_device"
                    ELSE IF made THEN "mainloop" ELSE "exit"
    /\ UNCHANGED <<case_name, checked, select_all_state, toggle_text,
                   selected_modules, batch_calls, batch_file, shown>>
    /\ UNCHANGED <<mainVars, fileVars, treeVars>>

\* A click on the checkbox of one module: the Checkbutton flips its variable.
Checkbutton ==
    /\ gpc = "mainloop"
    /\ \E m \in VarNames : checked' = [checked EXCEPT ![m] = ~@]
    /\ UNCHANGED <<gpc, case_name, device_name, select_all_state, toggle_text,
                   selected_modules, batch_calls, batch_file, shown>>
    /\ UNCHANGED <<mainVars, fileVars, treeVars>>

\* toggle_select_all, the command of the toggle button.
toggle_select_all ==
    /\ gpc = "mainloop"
    /\ LET state == select_all_state
       IN  /\ checked' = [m \in VarNames |-> state]
           /\ select_all_state' = ~state
           /\ toggle_text' = IF state THEN "Deselect All" ELSE "Select All"
    /\ UNCHANGED <<gpc, case_name, device_name,
                   selected_modules, batch_calls, batch_file, shown>>
    /\ UNCHANGED <<mainVars, fileVars, treeVars>>

\* generate_batch_file(selected_modules, case_name, device_name, batch_dir):
\* the batch file is written and a 'Success' box shown, or the write raises
\* and an 'Error' box is shown; the exception is caught.
generate_batch_file(sm, cn, dn, bd, written) ==
    /\ batch_calls' = Append(batch_calls,
                             [selected_modules |-> sm, case_name |-> cn,
                              device_name |-> dn, batch_dir |-> bd])
    /\ batch_file' = IF written
                     THEN [name |-> bd \o <<<<cn.text, "_", dn.text, ".bat">>>>,
                           command |-> <<sm, cn.text, dn.text>>]
                     ELSE batch_file
    /\ shown' = IF written THEN "Success" ELSE "Error"

\* The names on_select appends: module_var._name of every module whose
\* variable is set, in the order of the list modules.
AppendedNames ==
    LET set == SelectSeq(modules, LAMBDA m : checked[m.name])
    IN  [i \in 1..Len(set) |-> set[i].name]

\* Mutant: on_select without the test of selected_modules.
on_select_Unguarded ==
    /\ gpc = "mainloop"
    /\ selected_modules' = AppendedNames
    /\ \E written \in BOOLEAN :
          generate_batch_file(Join(selected_modules'), case_name, device_name,
                              batch_dir_of(case_name, device_name), written)
    /\ gpc' = "quit"
    /\ UNCHANGED <<case_name, device_name, checked, select_all_state, toggle_text>>
    /\ UNCHANGED <<mainVars, fileVars, treeVars>>

\* on_select, the command of the 'Generate Batch File' button: the list is
\* cleared and refilled; if it is not empty, the batch file is generated and
\* root.quit() ends the main loop.
on_select ==
    /\ gpc = "mainloop"
    /\ selected_modules' = AppendedNames
    /\ IF selected_modules' # <<>>
       THEN /\ \E written \in BOOLEAN :
                  generate_batch_file(Join(selected_modules'), case_name, device_name,
                                      batch_dir_of(case_name, device_name), written)
            /\ gpc' = "quit"
       ELSE UNCHANGED <<gpc, batch_calls, batch_file, shown>>
    /\ UNCHANGED <<case_name, device_name, checked, select_all_state, toggle_text>>
    /\ UNCHANGED <<mainVars, fileVars, treeVars>>

\* on_closing, the WM_DELETE_WINDOW handler: askyesno; Yes destroys the root
\* window and ends the process, No returns to the main loop.
on_closing ==
    /\ gpc = "mainloop"
    /\ \E yes \in BOOLEAN : gpc' = IF yes THEN "exit" ELSE "mainloop"
    /\ shown' = "Quit"
    /\ UNCHANGED <<case_name, device_name, checked, select_all_state, toggle_text,
                   selected_modules, batch_calls, batch_file>>
    /\ UNCHANGED <<mainVars, fileVars, treeVars>>

NextGui ==
    \/ AskCaseName
    \/ prompt_retry_abort
    \/ AskDeviceName
    \/ Checkbutton
    \/ toggle_select_all
    \/ on_select
    \/ on_closing

SpecGui == InitGui /\ [][NextGui]_vars

-----------------------------------------------------------------------------
(* Properties *)

\* The directory of the call of the try block that was made last.
LastOpDir == TaskOps(CurModule)[step - 1].dir

\* shutil.make_archive raised inside zip_directory(d).
ArchiveFailed(d) ==
    Running /\ cur.exc = "make_archive" /\ LastOpDir = d

\* zip_directory(d) was called and returned normally.
Sealed(d) ==
    /\ Running /\ d \in cur.zipCalled /\ d \in cur.rmCalled
    /\ ~(cur.exc \in {"make_archive", "rmtree"} /\ LastOpDir = d)

\* C1: in zip_directory the working directory is removed only after the
\* archive has been created: shutil.rmtree is called only on a directory
\* whose archive is complete and holds what the directory held at the call,
\* and when shutil.make_archive raises, shutil.rmtree is not reached and the
\* directory, if it existed, is still on disk with every entry it held.
C1_RmtreeOnlyAfterArchive ==
    \A d \in WorkDirs :
        /\ d \in cur.rmCalled => d \in zips /\ zipped[d] = cur.atCall[d]
        /\ ArchiveFailed(d) =>
              /\ d \notin cur.rmCalled
              /\ d \in cur.live => d \in dirs /\ work[d] = cur.atCall[d]

\* C1 witness: make_archive has raised on an existing directory with
\* several files in it.
C1_Witness ==
    \E d \in WorkDirs :
        ArchiveFailed(d) /\ d \in cur.live /\ Cardinality(work[d]) >= 2

\* C2: after zip_directory(d) has returned normally, the working directory
\* no longer exists, the archive exists, and the archive holds every entry
\* the directory held when zip_directory was called.
C2_SealedDirectoryArchived ==
    \A d \in WorkDirs :
        Sealed(d) => d \notin dirs /\ d \in zips /\ cur.atCall[d] \subseteq zipped[d]

\* C2 witness: zip_directory has returned normally for a directory that held
\* the manifest and copied files.
C2_Witness ==
    \E d \in WorkDirs : Sealed(d) /\ Cardinality(cur.atCall[d]) >= 3

-----------------------------------------------------------------------------
(* The collectors' results against their inputs *)

\* The modules that copy files and write a manifest, and those of them that
\* traverse a source tree.
Collectors == {"prefetch", "teamviewer", "bet", "browser_history"}
TreeCollectors == {"prefetch", "teamviewer", "bet"}

\* Module m's collection function has been called and cur.res is its result.
AfterCollect(m) == Running /\ CurModule = m /\ calls[m] > 0

SrcPathOf(m, f) == IF m = "browser_history" THEN BrowserPath[f] ELSE FilePath[f]

DestPathOf(m, f) ==
    CASE m = "prefetch" -> <<"Windows", "Prefetch">> \o FilePath[f]
      [] m = "bet" -> <<"Logs">> \o FilePath[f]
      [] m = "teamviewer" -> FilePath[f]
      [] OTHER -> BrowserPath[f]

\* The rows of the manifest that record file f.
RowsFor(f) ==
    {i \in 1..Len(cur.res.rows) : cur.res.rows[i].path = SrcPathOf(CurModule, f)}

Recorded(f) == Cardinality(RowsFor(f)) = 1
Copied(m, f) == DestPathOf(m, f) \in cur.res.entries

\* File f is one module m collects (TeamViewer takes .txt and .log only).
Wanted(m, f) == m = "teamviewer" => FileExt[f] \in {"txt", "log"}

\* File f lies in a directory whose listing faults.
InFaultyBranch(m, f, env) ==
    IF m = "browser_history" THEN f = 2 /\ 1 \in env.listFault
    ELSE \E i \in env.listFault : SubSeq(FilePath[f], 1, 1) = SubDir[i]

\* File f exists in a readable part of the source.
Encountered(m, f, env) ==
    env.fault[f] # "absent" /\ ~InFaultyBranch(m, f, env)

\* C3: for every file a collector attempted to copy (shutil.copy2 was called
\* on it), the manifest holds exactly one row, whether or not the copy, the
\* timestamp capture or the digest succeeded.
C3_OneRowPerAttemptedFile ==
    \A m \in Collectors :
        AfterCollect(m) => \A f \in cur.res.attempted : Recorded(f)

\* C4: when the copy or the digest of single files faults (and nothing else
\* does), no exception leaves the collection function and every other file
\* of the source that can be copied is copied and recorded.
C4_FileFaultDoesNotAbort ==
    \A m \in Collectors :
        ( /\ AfterCollect(m)
          /\ cur.env.setup = "ok" /\ cur.env.listFault = {}
          /\ \A f \in FileIds : cur.env.fault[f] \in {"none", "absent", "copy", "md5"}
          /\ \E f \in FileIds : cur.env.fault[f] \in {"copy", "md5"} )
        => /\ ~cur.res.raised
           /\ \A g \in FileIds :
                 Wanted(m, g) /\ cur.env.fault[g] \in {"none", "md5"}
                 => Recorded(g) /\ Copied(m, g)

\* C5: when directories inside the source tree cannot be listed (and nothing
\* else faults), the collector records no file of those branches and copies
\* and records every file outside them.
C5_UnlistableBranchSkipped ==
    \A m \in TreeCollectors :
        ( /\ AfterCollect(m)
          /\ cur.env.setup = "ok" /\ cur.env.listFault # {}
          /\ \A f \in FileIds : cur.env.fault[f] \in {"none", "absent"} )
        => \A f \in FileIds :
              /\ InFaultyBranch(m, f, cur.env) => RowsFor(f) = {}
              /\ Wanted(m, f) /\ Encountered(m, f, cur.env)
                 => Recorded(f) /\ Copied(m, f)

\* C6: when a task's source root does not exist, the task yields no
\* FileRecord, logs a warning and no error, and completes: neither its
\* collection call nor the seal of its (then missing) directory raises.
C6_MissingSourceIsNotAnError ==
    \A m \in Collectors \cup {"installed_programs"} :
        AfterCollect(m) /\ cur.env.setup = "srcMissing"
        => /\ cur.res.rows = <<>>
           /\ "warning" \in cur.res.log /\ "error" \notin cur.res.log
           /\ cur.exc # "collect"
           /\ ~(cur.exc = "make_archive" /\ LastOpDir \notin cur.live)

\* The position of module m in main.
Pos(m) == CHOOSE i \in 1..Len(ModOrder) : ModOrder[i] = m

\* C7 as stated: when main ends, each selected module's collection function
\* has been invoked exactly once, whatever failed in the other tasks.
C7_EachCollectionInvokedOnce ==
    done => \A m \in Modules : calls[m] = IF m \in selected THEN 1 ELSE 0

\* C7 amended: when main ends, every selected module's task has been run and
\* reported whatever failed in the tasks before it: its collection function
\* has been invoked exactly once, except copy_top_level_directories of
\* installed_programs, which is invoked once per source directory (twice, or
\* once when its first invocation raised); no other function is invoked.
C7_EverySelectedTaskRuns ==
    done =>
        \A m \in Modules :
            /\ m \notin selected => calls[m] = 0 /\ taskLog[m] = "none"
            /\ m \in selected /\ m # "installed_programs" => calls[m] = 1
            /\ m = "installed_programs" /\ m \in selected =>
                  /\ calls[m] \in {1, 2}
                  /\ taskLog[m] = "completed" => calls[m] = 2
            /\ m \in selected => taskLog[m] \in {"completed", "failed"}

\* C7 witness: main has ended, a task failed and a task after it has run to
\* completion.
C7_Witness ==
    /\ done
    /\ \E m1, m2 \in selected :
          /\ Pos(m1) < Pos(m2)
          /\ taskLog[m1] = "failed" /\ taskLog[m2] = "completed" /\ calls[m2] = 1

\* The collection call of the running task was ended by an exception, caught
\* inside the collection function or not.
CollectionFailed == cur.res.raised \/ cur.res.caught

\* C8: whenever main logs the outcome of a task, it logs "completed" only if
\* the task's collection and seal both succeeded, and "failed" whenever its
\* collection failed.
C8_TrueOutcomeReported ==
    [][ (Running /\ taskLog' # taskLog) =>
            /\ taskLog'[CurModule] = "completed" => ~CollectionFailed /\ cur.exc = "none"
            /\ CollectionFailed => taskLog'[CurModule] = "failed" ]_vars

\* C9: when the destination root cannot be created or the manifest cannot be
\* opened, no file is copied and the fault leaves the collection function.
C9_SetupFaultPropagates ==
    \A m \in Collectors :
        AfterCollect(m) /\ cur.env.setup \in {"mkdirFault", "openFault"}
        => cur.res.attempted = {} /\ cur.res.rows = <<>> /\ cur.res.raised

\* C10: after a collection over a source tree the manifest has as many rows
\* as there are files of the kind the collector takes in the readable part
\* of the tree; only the files of unlistable subtrees are missing.
C10_RowsEqualFilesEncountered ==
    \A m \in TreeCollectors :
        AfterCollect(m) /\ cur.env.setup = "ok"
        => Len(cur.res.rows) =
              Cardinality({f \in FileIds : Wanted(m, f) /\ Encountered(m, f, cur.env)})


-----------------------------------------------------------------------------
(* The destination tree *)

\* The manifest a collector writes into its working directory.
ManifestOf(m) ==
    CASE m = "prefetch" -> <<"prefetch_files.csv">>
      [] m = "teamviewer" -> <<"teamviewer_files.csv">>
      [] m = "bet" -> <<"bet_files.csv">>
      [] OTHER -> <<"browser_history.csv">>

\* The files under the working directory other than the manifest, as paths
\* relative to the working directory.
CopiedPaths(m) == cur.res.entries \ {ManifestOf(m)}

\* The files shutil.copy2 copied.
CopiedOk == {f \in cur.res.attempted : cur.env.fault[f] # "copy"}

\* C11 as stated: after a collection by prefetch, TeamViewer or BET, the path
\* of every copied file relative to the task's destination root equals its
\* path relative to the source root, and nothing else was copied.
C11_DestMirrorsSource ==
    \A m \in TreeCollectors :
        AfterCollect(m) => CopiedPaths(m) = {FilePath[f] : f \in CopiedOk}

\* C11 amended: the path of every copied file relative to the destination
\* root is the collector's fixed prefix (Windows/Prefetch for prefetch, Logs
\* for BET, none for TeamViewer) followed by its path relative to the source
\* root, and nothing else was copied.
C11_DestMirrorsSourceUnderPrefix ==
    \A m \in TreeCollectors :
        AfterCollect(m) => CopiedPaths(m) = {DestPathOf(m, f) : f \in CopiedOk}

\* C11 witness: a collector has copied the file of a subdirectory and the
\* file of the source root.
C11_Witness ==
    \E m \in TreeCollectors :
        AfterCollect(m) /\ {1, 2} \subseteq CopiedOk /\ Copied(m, 1) /\ Copied(m, 2)


-----------------------------------------------------------------------------
(* The per-file loop: digest, order of the calls *)

\* The data rows of the manifest.
DataRows == SelectSeq(csv_rows, LAMBDA r : r # HeaderRow)

\* The file a manifest row records.
RowFile(r) == CHOOSE f \in FileIds : source_file(f) = r.path

\* The digest of a whole content hashed at once: hashlib.md5(data).hexdigest().
Md5(data) == hexdigest(data)

\* C12: every manifest row whose digest is not None records the digest of
\* the whole content of its source file, as long as no other process has
\* written to that file: feeding the file to the hash object chunk by chunk
\* gives the digest of the content hashed at once, for every length of the
\* file (empty, shorter than a chunk, a multiple of the chunk size).
C12_DigestOfSourceContent ==
    \A i \in 1..Len(DataRows) :
        LET r == DataRows[i] IN
        r.digest # None /\ RowFile(r) \notin modified
        => r.digest = Md5(srcData[RowFile(r)])

\* C12 witness: the manifest records a digest for an unmodified file of two
\* full chunks and for an empty file.
C12_Witness ==
    \E i, j \in 1..Len(DataRows) :
        /\ DataRows[i].digest # None /\ DataRows[j].digest # None
        /\ RowFile(DataRows[i]) \notin modified /\ RowFile(DataRows[j]) \notin modified
        /\ Len(srcData[RowFile(DataRows[i])]) = 2 * ChunkSize
        /\ Len(srcData[RowFile(DataRows[j])]) = 0


\* The calls of the loop body for one file, in the order of the source text.
FileSteps == <<"copy2", "getctime", "getatime", "calculate_md5", "writerow">>

\* C13: the loop processes the files one at a time, in the order of the walk:
\* the calls made so far are, file after file, copy2, getctime, getatime,
\* calculate_md5 and writerow, each passed the source path of that file, so
\* every call for a file is made before the copy of the next file; and the
\* timestamps of every row are those of the source path.
C13_FileStepsInOrder ==
    /\ \A i \in 1..Len(trace) :
          /\ trace[i].fn = FileSteps[((i - 1) % Len(FileSteps)) + 1]
          /\ trace[i].path =
                source_file(FileId(LoopFiles[((i - 1) \div Len(FileSteps)) + 1]))
    /\ \A k \in 1..Len(DataRows) :
          /\ DataRows[k].path = source_file(FileId(LoopFiles[k]))
          /\ DataRows[k].created = getctime(DataRows[k].path)
          /\ DataRows[k].accessed = getatime(DataRows[k].path)
          /\ Len(trace) >= k * Len(FileSteps)

\* C13 witness: two files have been processed completely and the copy of the
\* third has been made.
C13_Witness ==
    /\ Len(DataRows) = 2
    /\ Len(trace) = 2 * Len(FileSteps) + 1
    /\ copied = {FileId(LoopFiles[k]) : k \in 1..3}


-----------------------------------------------------------------------------
(* The manifest: header and handle *)

\* C14: no file is copied and no data row is written before target_dir
\* exists and the header row has been written; the header is the first row of
\* the manifest and is written once.
C14_HeaderAndRootBeforeCopy ==
    /\ (trace # <<>> \/ copied # {} \/ DataRows # <<>>)
       => target_exists /\ csv_rows # <<>>
    /\ \A i \in 1..Len(csv_rows) : csv_rows[i] = HeaderRow <=> i = 1

\* C14 witness: the loop has copied and recorded two files, after the header
\* row.
C14_Witness ==
    /\ Len(DataRows) = 2 /\ Cardinality(copied) = 2
    /\ Len(csv_rows) = 3

\* C15: when the collection function has returned, normally or through its
\* except clause, the manifest handle is not open; main calls zip_directory
\* only after the return.
C15_ManifestClosedOnExit ==
    fpc = "returned" => csv_file # "open"

\* C15 witness: the function has returned through its except clause after
\* shutil.copy2 raised on the second file, and the manifest was closed.
C15_Witness ==
    /\ fpc = "returned" /\ csv_file = "closed"
    /\ Len(DataRows) = 1
    /\ Len(trace) = Len(FileSteps) + 1


\* C16: calculate_md5 never raises: an exception of its open or of one of
\* its reads does not leave it, so the loop is never ended by a call of
\* calculate_md5, and what it returns is None or the digest of the bytes fed
\* to the hash object.
C16_CalculateMd5Total ==
    /\ fpc = "raised" /\ trace # <<>> => trace[Len(trace)].fn # "calculate_md5"
    /\ fpc = "writerow" => md5_checksum = None \/ md5_checksum = hexdigest(hash_md5)

\* C16 witness: a read faulted after a chunk had been fed to the hash object;
\* calculate_md5 returned None and the loop is at writerow.
C16_Witness ==
    fpc = "writerow" /\ md5_checksum = None /\ hash_md5 # <<>>


-----------------------------------------------------------------------------
(* The tree listing *)

IsPrefix(p, q) == Len(p) <= Len(q) /\ SubSeq(q, 1, Len(p)) = p
ParentPath(p) == SubSeq(p, 1, Len(p) - 1)

\* The names of the entries of the directory path dir_path leads to.
NamesIn(in, dir_path) ==
    LET d == RealOf(in, dir_path)
    IN  {n \in {NameOrder[i] : i \in 1..Len(NameOrder)} :
            d \o <<n>> \in TreePaths /\ in.kind[d \o <<n>>] # "none"}

\* The names in the directory that holds the entry named by path p.
SiblingNames(in, p) == NamesIn(in, ParentPath(p))

\* The entry named by p is the last of its directory in name order.
IsLastEntry(in, p) == \A n \in SiblingNames(in, p) : Ord(n) <= Ord(p[Len(p)])

\* The line of the entry named by p, from the structure alone: one segment
\* per ancestor level, the connector, the name.
LineOf(in, p) ==
    [k \in 1..(Len(p) - 1) |->
        IF IsLastEntry(in, SubSeq(p, 1, k)) THEN "    " ELSE "|   "]
    \o <<IF IsLastEntry(in, p) THEN "+-- " ELSE "|-- ", p[Len(p)]>>

\* The indices of the lines written for entries, and those of the sentinels.
EntryLines == {i \in 1..Len(tree_out.lines) : ~tree_out.lines[i].sentinel}
SentinelLines == {i \in 1..Len(tree_out.lines) : tree_out.lines[i].sentinel}

\* The paths whose listing succeeded.
ListedOk ==
    {tree_out.listed[i] : i \in 1..Len(tree_out.listed)}
    \ {tree_out.lines[i].entry : i \in SentinelLines}

\* The lines of the subtree of line i are exactly the lines that follow it
\* up to the next line outside the subtree.
SubtreeFollows(i) ==
    LET p == tree_out.lines[i].entry
        below == {j \in 1..Len(tree_out.lines) :
                     j # i /\ IsPrefix(p, tree_out.lines[j].entry)}
    IN  below = (i + 1)..(i + Cardinality(below))

\* The entries of every directory are listed in name order.
SiblingsSorted ==
    \A i, j \in EntryLines :
        LET p == tree_out.lines[i].entry
            q == tree_out.lines[j].entry
        IN  i < j /\ ParentPath(p) = ParentPath(q) => Ord(p[Len(p)]) < Ord(q[Len(q)])

\* How often os.listdir was called on directory d, under whatever path.
TimesListed(d) ==
    Cardinality({i \in 1..Len(tree_out.listed) : RealOf(tree_in, tree_out.listed[i]) = d})

\* C17: when generate_dir_tree has run to its end, the entries of every
\* directory were written in name order, the lines of an entry's subtree
\* directly follow the entry's line, and, no listing having faulted, every
\* directory under the root was listed exactly once.
C17_SortedDepthFirstOnce ==
    tpc = "done" /\ tree_out.exc = "none"
    => /\ SiblingsSorted
       /\ \A i \in EntryLines : SubtreeFollows(i)
       /\ tree_in.fault = NoListFault =>
             \A d \in TreeDirs(tree_in.kind) : TimesListed(d) = 1

\* C18: every line written for an entry is the line the structure gives it:
\* one 4-character segment per ancestor level, blank below a last entry and
\* a bar otherwise, then the terminal connector for the last entry of its
\* directory in name order and the other connector for every earlier one;
\* no entry has two lines, and when no exception ended the traversal every
\* entry of every directory listed has one.
C18_ConnectorAndPrefix ==
    tpc = "done"
    => /\ \A i \in EntryLines :
             tree_out.lines[i].text = LineOf(tree_in, tree_out.lines[i].entry)
       /\ \A i, j \in EntryLines :
             tree_out.lines[i].entry = tree_out.lines[j].entry => i = j
       /\ tree_out.exc = "none" =>
             \A d \in ListedOk :
                \A n \in NamesIn(tree_in, d) :
                   \E i \in EntryLines : tree_out.lines[i].entry = d \o <<n>>

\* C18 witness: a listing with an entry below a directory that is not the
\* last of the root, and an entry below the directory that is.
C18_Witness ==
    /\ tpc = "done" /\ tree_out.exc = "none"
    /\ \E i, j \in EntryLines :
          /\ tree_out.lines[i].text = <<"|   ", "+-- ", "y">>
          /\ tree_out.lines[j].text = <<"    ", "+-- ", "x">>


\* The sentinel lines written for directory path d.
SentinelsOf(d) == {i \in SentinelLines : tree_out.lines[i].entry = d}

\* C19: in a structure without links, when os.listdir faults on a directory,
\* no exception ends the traversal, exactly one sentinel line is written for
\* that directory, directly after the directory's own line, and every entry
\* that is not below that directory has its line.
C19_ListingFaultSkipped ==
    tpc = "done" /\ tree_in.kind[<<"c">>] \notin {"link_root", "link_a"}
    => \A d \in TreeDirs(tree_in.kind) :
          tree_in.fault[d] # "none"
          => /\ tree_out.exc = "none"
             /\ Cardinality(SentinelsOf(d)) = 1
             /\ d # TreeRoot =>
                   \E i \in EntryLines :
                      tree_out.lines[i].entry = d /\ (i + 1) \in SentinelsOf(d)
             /\ \A p \in TreePaths :
                   tree_in.kind[p] # "none" /\ ~(IsPrefix(d, p) /\ p # d)
                   => \E i \in EntryLines : tree_out.lines[i].entry = p


-----------------------------------------------------------------------------
(* The end of the run *)

\* The working directories of module m.
WorkDirsOf(m) == {TaskOps(m)[i].dir : i \in 1..Len(TaskOps(m))}

\* C20: when main has reached its final log statement, no working directory
\* of a selected module exists under the target folder, whatever faulted
\* during the run.
C20_OnlyZipsLeft ==
    done => \A m \in selected : WorkDirsOf(m) \cap dirs = {}


-----------------------------------------------------------------------------
(* Writes of other processes during the loop *)

\* C21: whatever other processes write to the source files during the loop,
\* every manifest row whose digest is not None records the digest of the
\* content of the copy of its file under target_dir.
C21_DigestDescribesCopy ==
    \A i \in 1..Len(DataRows) :
        LET r == DataRows[i] IN
        r.digest # None => r.digest = Md5(dstData[RowFile(r)])


-----------------------------------------------------------------------------
(* Termination of the tree listing *)

-----------------------------------------------------------------------------
(* The arguments of generate_batch_file *)

\* The names in a joined module string: its elements that are no separator.
Split(str) == SelectSeq(str, LAMBDA x : x # " ")

\* The position of a BooleanVar name in the declaration order of modules.
Decl(n) == CHOOSE i \in 1..Len(modules) : modules[i].name = n

\* C23: every invocation of generate_batch_file has a non-empty case name, a
\* non-empty device name and a non-empty module list, and the module list
\* names exactly the modules that are checked, each once, in the order in
\* which the modules are declared.
C23_BatchFileArguments ==
    \A k \in 1..Len(batch_calls) :
        LET c == batch_calls[k]
            names == Split(c.selected_modules)
        IN  /\ c.case_name.ok /\ c.case_name.text # ""
            /\ c.device_name.ok /\ c.device_name.text # ""
            /\ c.selected_modules # <<>>
            /\ c.selected_modules = Join(names)
            /\ {names[i] : i \in 1..Len(names)} = {m \in VarNames : checked[m]}
            /\ \A i, j \in 1..Len(names) : i < j => Decl(names[i]) < Decl(names[j])

\* C23 witness: generate_batch_file was invoked after 'Select All' had been
\* clicked and the checkboxes of two modules clicked after it, with a case
\* name of one blank: the list passed names the five other modules.
C23_Witness ==
    /\ Len(batch_calls) = 1
    /\ ~select_all_state
    /\ {m \in VarNames : ~checked[m]} = {"prefetch", "bet"}
    /\ Len(Split(batch_calls[1].selected_modules)) = 5
    /\ batch_calls[1].case_name.text = " "

=============================================================================
